---- MODULE Spec2Model ----
(***************************************************************************)
(* Model of the recommendation and rating-prediction engine of the horror  *)
(* movie generator:                                                        *)
(*   src/core/recommendation_service.py  MovieRecommendationService        *)
(*   src/core/prediction_service.py      RatingPredictionService           *)
(*   src/core/tmdb_client.py             TMDBClient (the catalog)          *)
(*                                                                         *)
(* Python values are modelled as follows.                                  *)
(*   str          a tuple of one-character strings, <<"I","T">> is 'IT'    *)
(*   dict         a record; a key the dict does not hold is a field the    *)
(*                record does not have (see Get)                           *)
(*   None / x     an optional value is <<>> (None) or <<x>>                *)
(*   list         a sequence                                               *)
(*   float        ratings are whole numbers; predicted_rating and          *)
(*                confidence are kept in tenths (70 is 7.0, 3 is 0.3)      *)
(***************************************************************************)
EXTENDS Integers, Sequences, FiniteSets, TLC

VARIABLES
    pc,                  \* position of get_recommendations_for_movies
    movies,              \* its argument movies (the history)
    limit,               \* its argument limit
    top_movies,          \* the seeds, as positions in movies
    seed,                \* position in top_movies of the seed in the loop
    variation,           \* position in search_variations of the next search
    movie_id,            \* <<>> (None) or <<id>>
    recs,                \* answer of get_movie_recommendations, kept for the seed
    all_recommendations, \* the pool accumulated over the seeds
    result,              \* the list returned
    calls,               \* catalog calls made so far, by kind, and how many failed
    p_pc,                \* position of the prediction service call
    p_movies,            \* argument movies / rated_movies of the prediction service
    p_movie,             \* argument movie of predict_rating
    p_result,            \* value returned by the prediction service
    d_pc,                \* position of get_random_horror_movies
    d_watched,           \* its argument watched_titles
    d_limit,             \* its argument limit
    d_page,              \* the page of the loop
    d_requests,          \* the discover_movies requests made so far
    d_pages,             \* what discover_movies did per page: <<>> (raised) or <<answer>>
    all_random_movies,   \* the pool accumulated over the pages
    d_result,            \* the list returned
    s_pc,                \* position of spin_for_mood_movie
    s_mood,              \* its argument mood
    s_watched,           \* its argument watched_titles
    s_page,              \* the page of the loop
    s_requests,          \* the discover_movies requests made so far
    s_pages,             \* what discover_movies did per page: <<>> (raised) or <<answer>>
    all_mood_movies,     \* the pool accumulated over the pages
    s_result,            \* <<>> (None) or <<movie>>, the value returned
    g_pc,                \* position of _get_genre_names_for_movie
    g_movie,             \* its argument movie
    g_names,             \* the list returned
    a_pc,                \* position of the accumulation of the seeds' candidates
    a_lists,             \* the candidates obtained per seed, in seed order
    a_order,             \* the order in which the seeds' candidates are accumulated
    a_limit,             \* the limit of the call
    a_result,            \* the list returned
    r_pc,                \* position of a rating route
    r_op,                \* the route called: "rate" or "remove"
    r_title,             \* its argument movie_title
    r_rating,            \* argument rating of rate_movie, in tenths
    r_history,           \* the ratings the storage holds, by title
    r_calls,             \* how often the storage's rating mutation was invoked
    r_storage,           \* what the mutation did: "true", "false", "raised", "" (not invoked)
    r_status,            \* the HTTP status answered
    r_detail,            \* the detail of the HTTPException answered, "" for none
    k_pc,                \* position of the construction of the service
    k_arg,               \* argument api_key: <<>> (None) or <<str>>
    k_env,               \* os.getenv('TMDB_API_KEY'): <<>> (None) or <<str>>
    k_api_key,           \* self.api_key of the client
    k_requests           \* the requests the client has sent to the catalog

rec_vars == <<pc, movies, limit, top_movies, seed, variation, movie_id, recs,
              all_recommendations, result, calls>>

pred_vars == <<p_pc, p_movies, p_movie, p_result>>

disc_vars == <<d_pc, d_watched, d_limit, d_page, d_requests, d_pages,
               all_random_movies, d_result>>

spin_vars == <<s_pc, s_mood, s_watched, s_page, s_requests, s_pages,
               all_mood_movies, s_result>>

genre_vars == <<g_pc, g_movie, g_names>>

acc_vars == <<a_pc, a_lists, a_order, a_limit, a_result>>

route_vars == <<r_pc, r_op, r_title, r_rating, r_history, r_calls, r_storage,
                r_status, r_detail>>

client_vars == <<k_pc, k_arg, k_env, k_api_key, k_requests>>

\* the operations added last, which the steps of the others leave alone
late_vars == <<acc_vars, route_vars, client_vars>>

vars == <<rec_vars, pred_vars, disc_vars, spin_vars, genre_vars, late_vars>>

\* what a step of one operation leaves alone
not_rec_vars == <<pred_vars, disc_vars, spin_vars, genre_vars, late_vars>>

not_pred_vars == <<rec_vars, disc_vars, spin_vars, genre_vars, late_vars>>

not_disc_vars == <<rec_vars, pred_vars, spin_vars, genre_vars, late_vars>>

not_spin_vars == <<rec_vars, pred_vars, disc_vars, genre_vars, late_vars>>

not_genre_vars == <<rec_vars, pred_vars, disc_vars, spin_vars, late_vars>>

not_acc_vars ==
    <<rec_vars, pred_vars, disc_vars, spin_vars, genre_vars, route_vars, client_vars>>

not_route_vars ==
    <<rec_vars, pred_vars, disc_vars, spin_vars, genre_vars, acc_vars, client_vars>>

not_client_vars ==
    <<rec_vars, pred_vars, disc_vars, spin_vars, genre_vars, acc_vars, route_vars>>

----------------------------------------------------------------------------
(* Python built-ins *)

None == <<>>

Some(x) == <<x>>

\* d.get(k, default)
Get(d, k, default) == IF k \in DOMAIN d THEN d[k] ELSE default

Range(s) == {s[i] : i \in DOMAIN s}

Min(a, b) == IF a <= b THEN a ELSE b

Max(a, b) == IF a >= b THEN a ELSE b

\* s[:n]
Take(s, n) == SubSeq(s, 1, Min(Len(s), Max(n, 0)))

\* s[n:] (0-based n)
Drop(s, n) == SubSeq(s, Min(n, Len(s)) + 1, Len(s))

\* resolves a seq of seqs into one list, as repeated list.extend
RECURSIVE Concat(_)
Concat(ss) == IF ss = <<>> THEN <<>> ELSE Head(ss) \o Concat(Tail(ss))

\* str.lower() of one character (the capitals the titles and overviews below
\* use)
LowerChar(c) ==
    CASE c = "I" -> "i"
      [] c = "T" -> "t"
      [] c = "S" -> "s"
      [] c = "R" -> "r"
      [] c = "B" -> "b"
      [] c = "H" -> "h"
      [] OTHER -> c

\* str.lower()
Lower(s) == [i \in DOMAIN s |-> LowerChar(s[i])]

IsSpace(c) == c = " "

\* str.strip()
RECURSIVE LStrip(_)
LStrip(s) == IF s # <<>> /\ IsSpace(Head(s)) THEN LStrip(Tail(s)) ELSE s

RECURSIVE RStrip(_)
RStrip(s) ==
    IF s # <<>> /\ IsSpace(s[Len(s)]) THEN RStrip(SubSeq(s, 1, Len(s) - 1)) ELSE s

Strip(s) == RStrip(LStrip(s))

\* title.lower().strip(), the key the service and its callers compare titles by
NormalizedTitle(title) == Strip(Lower(title))

StartsWith(s, p) == Len(p) <= Len(s) /\ SubSeq(s, 1, Len(p)) = p

\* str.replace(old, new): every non-overlapping occurrence, left to right
RECURSIVE Replace(_, _, _)
Replace(s, old, new) ==
    IF s = <<>> THEN <<>>
    ELSE IF StartsWith(s, old) THEN new \o Replace(Drop(s, Len(old)), old, new)
         ELSE <<Head(s)>> \o Replace(Tail(s), old, new)

----------------------------------------------------------------------------
(* The inputs: histories and catalog answers *)

T_IT == <<"I", "T">>

T_it_ == <<"i", "t", " ">>

T_Saw == <<"S", "a", "w">>

T_Seven == <<"S", "e", "v", "e", "n">>

T_Ring == <<"R", "i", "n", "g">>

Y_2017 == <<"2", "0", "1", "7">>

Y_1995 == <<"1", "9", "9", "5">>

\* The items a history is made of (src/data/movie_data.py gives every item a
\* title, a year and a rating that may be None).
HistoryItems ==
    { [title |-> T_IT,    year |-> Y_2017, rating |-> Some(9)],
      [title |-> T_Saw,   year |-> <<>>,   rating |-> Some(7)],
      [title |-> T_Seven, year |-> Y_1995, rating |-> Some(6)],
      [title |-> T_Ring,  year |-> Y_1995, rating |-> None] }

MaxHistory == 2

MaxLimit == 2

SeqsUpTo(S, n) == UNION {[1..k -> S] : k \in 0..n}

Histories == SeqsUpTo(HistoryItems, MaxHistory)

\* Longer histories, with a second low rating, for the choice of the seeds
SeedHistoryItems ==
    HistoryItems \cup { [title |-> T_Saw, year |-> <<>>, rating |-> Some(3)] }

MaxSeedHistory == 4

SeedHistories == SeqsUpTo(SeedHistoryItems, MaxSeedHistory)

Limits == 0..MaxLimit

\* Catalog entries as /search/movie answers them
S_1990 == [id |-> 1, release_date |-> <<"1", "9", "9", "0", "-", "1", "1">>]

S_2017 == [id |-> 2, release_date |-> <<"2", "0", "1", "7", "-", "0", "9">>]

S_undated == [id |-> 3]

SearchAnswers == { <<>>, <<S_1990, S_2017>>, <<S_undated>> }

\* Catalog entries as /recommendations and /similar answer them
C_IT == [title |-> T_IT, genre_ids |-> <<27, 53>>]

C_it_ == [title |-> T_it_, genre_ids |-> <<18, 9648>>]

C_Drama == [title |-> T_Saw, genre_ids |-> <<18>>]

C_NoGenres == [title |-> T_Ring]

RelatedAnswers == { <<>>, <<C_IT, C_Drama>>, <<C_it_>>, <<C_NoGenres>> }

----------------------------------------------------------------------------
(* src/core/tmdb_client.py *)

\* get_movie_recommendations / get_similar_movies: results[:limit]
ResultsUpTo(results, n) == Take(results, n)

----------------------------------------------------------------------------
(* MovieRecommendationService.get_recommendations_for_movies *)

TopSeeds == 3

RelatedLimit == 8

HighRating == 7

horror_genres == <<27, 53, 9648>>

Rating(m) == m.rating[1]

IsRated(m) == Get(m, "rating", None) # None

\* line 32: the rated items of ms, as positions, in order
AllRated(ms) ==
    SelectSeq([i \in 1..Len(ms) |-> i], LAMBDA i : IsRated(ms[i]))

\* line 29: the items of ms rated >= 7.0, as positions, in order
HighRated(ms) ==
    SelectSeq([i \in 1..Len(ms) |-> i],
              LAMBDA i : IsRated(ms[i]) /\ Rating(ms[i]) >= HighRating)

\* as rated_movies, but topping up with lower-rated items when fewer than
\* TopSeeds items are rated >= 7.0
rated_movies_TopUp(ms) ==
    IF Len(HighRated(ms)) >= TopSeeds THEN HighRated(ms) ELSE AllRated(ms)

\* lines 29-34: the rated items with rating >= 7.0, or else all rated items
rated_movies(ms) ==
    IF HighRated(ms) # <<>> THEN HighRated(ms) ELSE AllRated(ms)

\* sorted(..., key=rating, reverse=True) is stable: an item goes behind the
\* items rated at least as high that precede it
RECURSIVE SortedByRating(_, _)
SortedByRating(ms, ps) ==
    IF ps = <<>> THEN <<>>
    ELSE LET rest == SortedByRating(ms, SubSeq(ps, 1, Len(ps) - 1))
             p    == ps[Len(ps)]
             ahead == SelectSeq(rest, LAMBDA q : Rating(ms[q]) >= Rating(ms[p]))
             behind == SelectSeq(rest, LAMBDA q : Rating(ms[q]) < Rating(ms[p]))
         IN  ahead \o <<p>> \o behind

\* as TopMovies, but without the cut to three
TopMovies_Uncut(ms) == SortedByRating(ms, rated_movies(ms))

\* line 37
TopMovies(ms) == Take(SortedByRating(ms, rated_movies(ms)), TopSeeds)

\* lines 43-47
search_variations(movie_title) ==
    << movie_title,
       Replace(movie_title, T_Seven, <<"S", "e", "7", "e", "n">>),
       Replace(movie_title, T_IT, <<"I", "t">>) >>

\* as MatchId, but always the first result
MatchId_FirstResult(movie, search_results) == search_results[1].id

\* lines 54-64: the id of the first result of the movie's year, or else of
\* the first result
MatchId(movie, search_results) ==
    LET movie_year == Get(movie, "year", <<>>)
        hits == SelectSeq(search_results,
                    LAMBDA r : Take(Get(r, "release_date", <<>>), 4) = movie_year)
    IN  IF movie_year # <<>> /\ hits # <<>> THEN hits[1].id
        ELSE search_results[1].id

\* as IsHorror, but letting a candidate without genre_ids through
IsHorror_LenientOnMissing(rec) ==
    \/ "genre_ids" \notin DOMAIN rec
    \/ \E g \in Range(rec.genre_ids) : g \in Range(horror_genres)

\* line 78
IsHorror(rec) ==
    \E g \in Range(Get(rec, "genre_ids", <<>>)) : g \in Range(horror_genres)

\* lines 74-79
filtered_recs(related) == SelectSeq(related, IsHorror)

\* lines 88-98
RECURSIVE UniqueFrom(_, _, _, _)
UniqueFrom(rs, seen_titles, unique_recs, n) ==
    IF rs = <<>> THEN unique_recs
    ELSE LET rec == Head(rs)
         IN  IF rec.title \notin seen_titles
             THEN IF Len(unique_recs) + 1 >= n
                  THEN Append(unique_recs, rec)
                  ELSE UniqueFrom(Tail(rs), seen_titles \cup {rec.title},
                                  Append(unique_recs, rec), n)
             ELSE UniqueFrom(Tail(rs), seen_titles, unique_recs, n)

\* as unique_recs, but without the test on seen_titles
unique_recs_NoDedup(rs, n) == Take(rs, Max(n, 1))

unique_recs(rs, n) == UniqueFrom(rs, {}, <<>>, n)

NoCalls == [search |-> 0, recommendations |-> 0, similar |-> 0, failed |-> 0]

Called(kind, ok) ==
    [calls EXCEPT ![kind] = @ + 1, !.failed = IF ok THEN @ ELSE @ + 1]

\* lines 87-98: the loop over the seeds is over
Return(pool) ==
    /\ pc' = "done"
    /\ result' = unique_recs(pool, limit)
    /\ all_recommendations' = pool
    /\ variation' = 0
    /\ movie_id' = None
    /\ recs' = <<>>
    /\ UNCHANGED <<movies, limit, top_movies, seed>>

\* line 39: the next seed, or the end of the loop
NextSeed(pool) ==
    IF seed < Len(top_movies)
    THEN /\ pc' = "search"
         /\ seed' = seed + 1
         /\ variation' = 1
         /\ movie_id' = None
         /\ recs' = <<>>
         /\ all_recommendations' = pool
         /\ UNCHANGED <<movies, limit, top_movies, result>>
    ELSE Return(pool)

\* as SeedFailed, but without the except clause: the error leaves the call
SeedFailed_Raises ==
    /\ pc' = "raised"
    /\ UNCHANGED <<movies, limit, top_movies, seed, variation, movie_id, recs,
                   all_recommendations, result>>

\* as SeedFailed, but keeping what the seed's first call had answered
SeedFailed_KeepsRecs == NextSeed(all_recommendations \o filtered_recs(recs))

\* lines 83-85: except Exception ... continue
SeedFailed == NextSeed(all_recommendations)

\* lines 26-37
Begin ==
    /\ pc = "idle"
    /\ IF rated_movies(movies) = <<>>
       THEN /\ pc' = "done"
            /\ result' = <<>>
            /\ UNCHANGED <<top_movies, seed, variation>>
       ELSE /\ pc' = "search"
            /\ top_movies' = TopMovies(movies)
            /\ seed' = 1
            /\ variation' = 1
            /\ UNCHANGED result
    /\ UNCHANGED <<movies, limit, movie_id, recs, all_recommendations, calls>>
    /\ UNCHANGED not_rec_vars

\* lines 50-67: search_movie answers
SearchReturns(search_results) ==
    /\ pc = "search"
    /\ calls' = Called("search", TRUE)
    /\ IF search_results # <<>>
       THEN /\ movie_id' = Some(MatchId(movies[top_movies[seed]], search_results))
            /\ pc' = "recommendations"
            /\ UNCHANGED <<movies, limit, top_movies, seed, variation, recs,
                           all_recommendations, result>>
       ELSE IF variation < Len(search_variations(movies[top_movies[seed]].title))
            THEN /\ variation' = variation + 1
                 /\ UNCHANGED <<pc, movies, limit, top_movies, seed, movie_id, recs,
                                all_recommendations, result>>
            ELSE NextSeed(all_recommendations)
    /\ UNCHANGED not_rec_vars

\* line 51 raises
SearchFails ==
    /\ pc = "search"
    /\ calls' = Called("search", FALSE)
    /\ SeedFailed
    /\ UNCHANGED not_rec_vars

\* line 69: get_movie_recommendations answers
RecommendationsReturns(results) ==
    /\ pc = "recommendations"
    /\ calls' = Called("recommendations", TRUE)
    /\ recs' = ResultsUpTo(results, RelatedLimit)
    /\ pc' = "similar"
    /\ UNCHANGED <<movies, limit, top_movies, seed, variation, movie_id,
                   all_recommendations, result>>
    /\ UNCHANGED not_rec_vars

\* line 69 raises
RecommendationsFails ==
    /\ pc = "recommendations"
    /\ calls' = Called("recommendations", FALSE)
    /\ SeedFailed
    /\ UNCHANGED not_rec_vars

\* lines 70-81: get_similar_movies answers
SimilarReturns(results) ==
    /\ pc = "similar"
    /\ calls' = Called("similar", TRUE)
    /\ LET similar == ResultsUpTo(results, RelatedLimit)
       IN  NextSeed(all_recommendations \o filtered_recs(recs \o similar))
    /\ UNCHANGED not_rec_vars

\* line 70 raises
SimilarFails ==
    /\ pc = "similar"
    /\ calls' = Called("similar", FALSE)
    /\ SeedFailed
    /\ UNCHANGED not_rec_vars

InitRecommend ==
    /\ pc = "idle"
    /\ movies \in Histories
    /\ limit \in Limits
    /\ top_movies = <<>>
    /\ seed = 0
    /\ variation = 0
    /\ movie_id = None
    /\ recs = <<>>
    /\ all_recommendations = <<>>
    /\ result = <<>>
    /\ calls = NoCalls

InitPredictIdle ==
    /\ p_pc = "off"
    /\ p_movies = <<>>
    /\ p_movie = <<>>
    /\ p_result = <<>>

InitRecommendIdle ==
    /\ pc = "off"
    /\ movies = <<>>
    /\ limit = 0
    /\ top_movies = <<>>
    /\ seed = 0
    /\ variation = 0
    /\ movie_id = None
    /\ recs = <<>>
    /\ all_recommendations = <<>>
    /\ result = <<>>
    /\ calls = NoCalls

InitDiscoverIdle ==
    /\ d_pc = "off"
    /\ d_watched = {}
    /\ d_limit = 0
    /\ d_page = 0
    /\ d_requests = <<>>
    /\ d_pages = <<>>
    /\ all_random_movies = <<>>
    /\ d_result = <<>>

InitSpinIdle ==
    /\ s_pc = "off"
    /\ s_mood = ""
    /\ s_watched = {}
    /\ s_page = 0
    /\ s_requests = <<>>
    /\ s_pages = <<>>
    /\ all_mood_movies = <<>>
    /\ s_result = None

InitAccumulateIdle ==
    /\ a_pc = "off"
    /\ a_lists = <<>>
    /\ a_order = <<>>
    /\ a_limit = 0
    /\ a_result = <<>>

InitRoutesIdle ==
    /\ r_pc = "off"
    /\ r_op = ""
    /\ r_title = <<>>
    /\ r_rating = 0
    /\ r_history = <<>>
    /\ r_calls = 0
    /\ r_storage = ""
    /\ r_status = 0
    /\ r_detail = ""

InitClientIdle ==
    /\ k_pc = "off"
    /\ k_arg = None
    /\ k_env = None
    /\ k_api_key = None
    /\ k_requests = <<>>

InitGenresIdle ==
    /\ g_pc = "off"
    /\ g_movie = <<>>
    /\ g_names = <<>>

\* the accumulation, the rating routes and the client are not called
InitLateIdle == InitAccumulateIdle /\ InitRoutesIdle /\ InitClientIdle

Init ==
    /\ InitRecommend
    /\ InitPredictIdle
    /\ InitDiscoverIdle
    /\ InitSpinIdle
    /\ InitGenresIdle
    /\ InitLateIdle

\* The choice of the seeds and the search loop, over longer histories, with a
\* catalog whose searches find nothing or fail
InitSeeds ==
    /\ pc = "idle"
    /\ movies \in SeedHistories
    /\ limit \in Limits
    /\ top_movies = <<>>
    /\ seed = 0
    /\ variation = 0
    /\ movie_id = None
    /\ recs = <<>>
    /\ all_recommendations = <<>>
    /\ result = <<>>
    /\ calls = NoCalls
    /\ InitPredictIdle
    /\ InitDiscoverIdle
    /\ InitSpinIdle
    /\ InitGenresIdle
    /\ InitLateIdle

NextSeeds ==
    \/ Begin
    \/ SearchReturns(<<>>)
    \/ SearchFails

SpecSeeds == InitSeeds /\ [][NextSeeds]_vars

Next ==
    \/ Begin
    \/ \E a \in SearchAnswers : SearchReturns(a)
    \/ SearchFails
    \/ \E a \in RelatedAnswers : RecommendationsReturns(a)
    \/ RecommendationsFails
    \/ \E a \in RelatedAnswers : SimilarReturns(a)
    \/ SimilarFails

Spec == Init /\ [][Next]_vars

\* The calls of one run, over histories long enough for the cut to three
\* seeds, with a catalog whose searches find one result, nothing, or fail
\* and whose related lists hold one candidate, nothing, or fail
ProtocolItems ==
    { [title |-> T_IT,  year |-> Y_2017, rating |-> Some(9)],
      [title |-> T_Saw, year |-> <<>>,   rating |-> Some(7)] }

MaxProtocolHistory == 4

ProtocolHistories == SeqsUpTo(ProtocolItems, MaxProtocolHistory)

ProtocolSearchAnswers == { <<>>, <<S_undated>> }

ProtocolRelatedAnswers == { <<>>, <<C_IT>> }

InitProtocol ==
    /\ pc = "idle"
    /\ movies \in ProtocolHistories
    /\ limit = MaxLimit
    /\ top_movies = <<>>
    /\ seed = 0
    /\ variation = 0
    /\ movie_id = None
    /\ recs = <<>>
    /\ all_recommendations = <<>>
    /\ result = <<>>
    /\ calls = NoCalls
    /\ InitPredictIdle
    /\ InitDiscoverIdle
    /\ InitSpinIdle
    /\ InitGenresIdle
    /\ InitLateIdle

NextProtocol ==
    \/ Begin
    \/ \E a \in ProtocolSearchAnswers : SearchReturns(a)
    \/ SearchFails
    \/ \E a \in ProtocolRelatedAnswers : RecommendationsReturns(a)
    \/ RecommendationsFails
    \/ \E a \in ProtocolRelatedAnswers : SimilarReturns(a)
    \/ SimilarFails

SpecProtocol == InitProtocol /\ [][NextProtocol]_vars

\* The catalog answers or fails every call made, and the code between two
\* calls has no loop of its own: a run that is not over takes its next step
SpecProtocolFair == SpecProtocol /\ WF_vars(NextProtocol)

----------------------------------------------------------------------------
(* RatingPredictionService *)

G_Horror == "Horror"

G_Thriller == "Thriller"

\* The items the prediction service is given: rated ones, and unrated ones
\* to predict
P_Thriller8 ==
    [title |-> T_IT, year |-> Y_2017, rating |-> Some(8),
     genres |-> <<G_Horror, G_Thriller>>]

P_Horror1 ==
    [title |-> T_Saw, year |-> <<>>, rating |-> Some(1), genres |-> <<G_Horror>>]

P_Drama6 ==
    [title |-> T_Seven, year |-> Y_1995, rating |-> Some(6), genres |-> <<"Drama">>]

P_Comedy10 ==
    [title |-> T_it_, year |-> Y_1995, rating |-> Some(10), genres |-> <<"Comedy">>]

P_UnratedThriller ==
    [title |-> T_Ring, year |-> Y_2017, rating |-> None,
     genres |-> <<G_Thriller, G_Horror>>, vote_average |-> 66]

P_UnratedPlain == [title |-> T_Saw, year |-> Y_1995, rating |-> None]

PredictItems ==
    { P_Thriller8, P_Horror1, P_Drama6, P_Comedy10, P_UnratedThriller,
      P_UnratedPlain }

\* The movie predict_rating is asked about
PredictTargets ==
    { P_UnratedThriller, P_UnratedPlain, [title |-> T_IT, genres |-> <<G_Horror>>] }

MaxMovies == 5

PredictHistories == SeqsUpTo(PredictItems, MaxMovies)

RECURSIVE Sum(_)
Sum(ns) == IF ns = <<>> THEN 0 ELSE Head(ns) + Sum(Tail(ns))

\* as RoundedMean, but without the division
RoundedMean_NoDivision(total, n) == 10 * total

\* round(total / n, 1), in tenths. The quotient of whole ratings lies half-way
\* between two tenths only at x.25 and x.75 (for n < 20), which floats hold
\* exactly, and there round() goes to the even tenth.
RoundedMean(total, n) ==
    LET q == (10 * total) \div n
        r == (10 * total) % n
    IN  IF 2 * r < n THEN q
        ELSE IF 2 * r > n THEN q + 1
        ELSE IF q % 2 = 0 THEN q ELSE q + 1

\* as similar_ratings, but with a rating entered once per shared genre
similar_ratings_PerGenre(movie, rs) ==
    LET movie_genres == Range(Get(movie, "genres", <<>>))
        Shared(m) ==
            IF Get(m, "rating", None) = None THEN 0
            ELSE Cardinality(movie_genres \cap Range(Get(m, "genres", <<>>)))
    IN  Concat([i \in DOMAIN rs |-> [k \in 1..Shared(rs[i]) |-> Rating(rs[i])]])

\* lines 30-39: the ratings of the rated movies that share a genre
similar_ratings(movie, rs) ==
    LET movie_genres == Range(Get(movie, "genres", <<>>))
        Similar(m) ==
            /\ Get(m, "rating", None) # None
            /\ Cardinality(movie_genres \cap Range(Get(m, "genres", <<>>))) > 0
        picked == SelectSeq(rs, Similar)
    IN  [i \in DOMAIN picked |-> Rating(picked[i])]

\* as Confidence, but capped at 1.0
Confidence_CappedAtOne(n) == Min(10, 2 * n)

\* line 43: min(0.9, len(similar_ratings) / 5.0), in tenths
Confidence(n) == Min(9, 2 * n)

\* what a call leaves in place of its (rating, confidence) pair when
\* m['rating'] raises
KeyError == <<"KeyError">>

Raised(r) == Len(r) = 1

\* as predict_rating, but answering the fixed prior whenever no rated movie
\* shares a genre
predict_rating_PriorOnNoOverlap(movie, rs) ==
    IF rs = <<>> THEN <<70, 3>>
    ELSE LET similar == similar_ratings(movie, rs)
         IN  IF similar # <<>>
             THEN <<RoundedMean(Sum(similar), Len(similar)), Confidence(Len(similar))>>
             ELSE <<70, 3>>

\* lines 21-50. Line 31 reads the rating with .get('rating'), line 46 with
\* m['rating'], which raises KeyError on an entry that has no such key.
predict_rating(movie, rs) ==
    IF rs = <<>> THEN <<70, 3>>
    ELSE LET similar == similar_ratings(movie, rs)
         IN  IF similar # <<>>
             THEN <<RoundedMean(Sum(similar), Len(similar)), Confidence(Len(similar))>>
             ELSE IF \E i \in DOMAIN rs : "rating" \notin DOMAIN rs[i]
             THEN KeyError
             ELSE LET rated == SelectSeq(rs, LAMBDA m : m.rating # None)
                      all_ratings == [i \in DOMAIN rated |-> Rating(rated[i])]
                  IN  IF all_ratings # <<>>
                      THEN <<RoundedMean(Sum(all_ratings), Len(all_ratings)), 3>>
                      ELSE <<70, 3>>

\* as EnoughRated, but content with one rated movie
EnoughRated_One(rated) == Len(rated) >= 1

\* line 57
EnoughRated(rated) == Len(rated) >= 2

\* lines 61-72
Prediction(movie, rated) ==
    LET p == predict_rating(movie, rated)
    IN  [title |-> movie.title,
         year |-> movie.year,
         predicted_rating |-> p[1],
         confidence |-> p[2],
         actual_tmdb_rating |-> Get(movie, "vote_average", 0),
         genres |-> Get(movie, "genres", <<>>)]

\* as get_predictions_for_unrated_movies, but looping over all the movies
get_predictions_for_all_movies(ms) ==
    LET rated == SelectSeq(ms, LAMBDA m : Get(m, "rating", None) # None)
    IN  IF ~EnoughRated(rated) THEN <<>>
        ELSE [i \in DOMAIN ms |-> Prediction(ms[i], rated)]

\* lines 52-74
get_predictions_for_unrated_movies(ms) ==
    LET rated == SelectSeq(ms, LAMBDA m : Get(m, "rating", None) # None)
        unrated == SelectSeq(ms, LAMBDA m : Get(m, "rating", None) = None)
    IN  IF ~EnoughRated(rated) THEN <<>>
        ELSE [i \in DOMAIN unrated |-> Prediction(unrated[i], rated)]

BatchPredict ==
    /\ p_pc = "idle"
    /\ p_pc' = "batch"
    /\ p_result' = get_predictions_for_unrated_movies(p_movies)
    /\ UNCHANGED <<p_movies, p_movie>>
    /\ UNCHANGED not_pred_vars

PredictRating(movie) ==
    /\ p_pc = "idle"
    /\ p_pc' = IF Raised(predict_rating(movie, p_movies)) THEN "raised" ELSE "single"
    /\ p_movie' = movie
    /\ p_result' = predict_rating(movie, p_movies)
    /\ UNCHANGED p_movies
    /\ UNCHANGED not_pred_vars

InitPredict ==
    /\ p_pc = "idle"
    /\ p_movies \in PredictHistories
    /\ p_movie = <<>>
    /\ p_result = <<>>
    /\ InitRecommendIdle
    /\ InitDiscoverIdle
    /\ InitSpinIdle
    /\ InitGenresIdle
    /\ InitLateIdle

NextPredict ==
    \/ BatchPredict
    \/ \E movie \in PredictTargets : PredictRating(movie)

SpecPredict == InitPredict /\ [][NextPredict]_vars

\* An entry of a history that has no 'rating' key at all
P_NoRatingKey == [title |-> T_Ring, genres |-> <<"Drama">>]

LooseItems == { P_Thriller8, P_Drama6, P_UnratedPlain, P_NoRatingKey }

MaxLooseHistory == 3

\* predict_rating on histories whose entries need not have a 'rating' key
InitPredictLoose ==
    /\ p_pc = "idle"
    /\ p_movies \in SeqsUpTo(LooseItems, MaxLooseHistory)
    /\ p_movie = <<>>
    /\ p_result = <<>>
    /\ InitRecommendIdle
    /\ InitDiscoverIdle
    /\ InitSpinIdle
    /\ InitGenresIdle
    /\ InitLateIdle

NextPredictLoose == \E movie \in PredictTargets : PredictRating(movie)

SpecPredictLoose == InitPredictLoose /\ [][NextPredictLoose]_vars

----------------------------------------------------------------------------
(* MovieRecommendationService._get_genre_names_for_movie *)

\* lines 236-256
genre_map ==
    (27 :> "Horror") @@ (53 :> "Thriller") @@ (9648 :> "Mystery")
    @@ (18 :> "Drama") @@ (35 :> "Comedy") @@ (28 :> "Action")
    @@ (12 :> "Adventure") @@ (16 :> "Animation") @@ (80 :> "Crime")
    @@ (99 :> "Documentary") @@ (10751 :> "Family") @@ (14 :> "Fantasy")
    @@ (36 :> "History") @@ (10402 :> "Music") @@ (10749 :> "Romance")
    @@ (878 :> "Science Fiction") @@ (10770 :> "TV Movie") @@ (10752 :> "War")
    @@ (37 :> "Western")

\* as GenreName, but with Thriller filed under Horror
GenreName_ThrillerAsHorror(genre_id) ==
    IF genre_id = 53 THEN "Horror"
    ELSE IF genre_id \in DOMAIN genre_map THEN genre_map[genre_id] ELSE "Unknown"

\* line 259: genre_map.get(genre_id, 'Unknown')
GenreName(genre_id) ==
    IF genre_id \in DOMAIN genre_map THEN genre_map[genre_id] ELSE "Unknown"

\* lines 258-259: the comprehension keeps the ids that are in genre_map
get_genre_names_for_movie(movie) ==
    LET genre_ids == Get(movie, "genre_ids", <<>>)
        known == SelectSeq(genre_ids, LAMBDA genre_id : genre_id \in DOMAIN genre_map)
    IN  [i \in DOMAIN known |-> GenreName(known[i])]

\* an id the catalog may use that the table does not hold
UnlistedGenre == 999

MaxGenreIds == 2

GenreMovies ==
    { [title |-> T_IT] }
        \cup { [title |-> T_IT, genre_ids |-> ids] :
                 ids \in SeqsUpTo(DOMAIN genre_map \cup {UnlistedGenre}, MaxGenreIds) }

GetGenreNames ==
    /\ g_pc = "idle"
    /\ g_pc' = "done"
    /\ g_names' = get_genre_names_for_movie(g_movie)
    /\ UNCHANGED g_movie
    /\ UNCHANGED not_genre_vars

InitGenres ==
    /\ g_pc = "idle"
    /\ g_movie \in GenreMovies
    /\ g_names = <<>>
    /\ InitLateIdle
    /\ InitRecommendIdle
    /\ InitPredictIdle
    /\ InitDiscoverIdle
    /\ InitSpinIdle

NextGenres == GetGenreNames

SpecGenres == InitGenres /\ [][NextGenres]_vars

----------------------------------------------------------------------------
(* MovieRecommendationService.get_random_horror_movies *)

T_it == <<"i", "t">>

T_saw == <<"s", "a", "w">>

\* The sets of titles a caller may pass: the routes pass lower-cased,
\* stripped titles, the signature asks for a set
WatchedSets == SUBSET {T_it, T_IT, T_saw}

MaxDiscoverLimit == 3

DiscoverLimits == 0..MaxDiscoverLimit

\* Pages as /discover/movie answers them
DiscoverAnswers == { <<>>, <<C_IT, C_Drama>>, <<C_it_>>, <<C_NoGenres, C_IT>> }

\* as pages_to_fetch, but rounding limit / 10 up
pages_to_fetch_RoundedUp(lim) == Min(5, Max(2, (lim + 9) \div 10))

\* line 108
pages_to_fetch(lim) == Min(5, Max(2, lim \div 10))

\* lines 127-128 and 212-213: movie['genre_names'] = genre_names
WithGenreNames(movie) ==
    [k \in DOMAIN movie \cup {"genre_names"} |->
        IF k = "genre_names" THEN get_genre_names_for_movie(movie) ELSE movie[k]]

\* lines 122-129
unwatched_movies(horror_movies, watched_titles) ==
    LET kept == SelectSeq(horror_movies,
                          LAMBDA movie : NormalizedTitle(movie.title) \notin watched_titles)
    IN  [i \in DOMAIN kept |-> WithGenreNames(kept[i])]

\* as Shuffles, but drawing every position from the whole list
Shuffles_WithRepeats(s) == [DOMAIN s -> Range(s)]

\* line 138, random.shuffle: the orders the list may be left in
Shuffles(s) ==
    IF s = <<>> THEN {<<>>}
    ELSE { [i \in DOMAIN s |-> s[f[i]]] : f \in Permutations(DOMAIN s) }

\* the request of lines 113-119, scores in tenths
DiscoverRequest ==
    [with_genres |-> <<27>>,
     page |-> d_page,
     sort_by |-> "popularity.desc",
     vote_average_gte |-> 50,
     vote_count_gte |-> 50]

\* the end of an iteration of the loop of line 110: the next page, or
\* lines 138-139 after the last one
DiscoverPageDone(pool) ==
    IF d_page < pages_to_fetch(d_limit)
    THEN /\ d_pc' = "page"
         /\ d_page' = d_page + 1
         /\ all_random_movies' = pool
         /\ d_result' = d_result
    ELSE /\ d_pc' = "done"
         /\ d_page' = d_page
         /\ \E shuffled \in Shuffles(pool) :
               /\ all_random_movies' = shuffled
               /\ d_result' = Take(shuffled, d_limit)

\* lines 113-131: discover_movies answers
DiscoverReturns(horror_movies) ==
    /\ d_pc = "page"
    /\ d_requests' = Append(d_requests, DiscoverRequest)
    /\ d_pages' = Append(d_pages, Some(horror_movies))
    /\ DiscoverPageDone(all_random_movies \o unwatched_movies(horror_movies, d_watched))
    /\ UNCHANGED <<d_watched, d_limit>>
    /\ UNCHANGED not_disc_vars

\* lines 133-135: discover_movies raises
DiscoverFails ==
    /\ d_pc = "page"
    /\ d_requests' = Append(d_requests, DiscoverRequest)
    /\ d_pages' = Append(d_pages, None)
    /\ DiscoverPageDone(all_random_movies)
    /\ UNCHANGED <<d_watched, d_limit>>
    /\ UNCHANGED not_disc_vars

\* lines 104-110: the call has entered the loop
InitDiscover ==
    /\ d_pc = "page"
    /\ d_watched \in WatchedSets
    /\ d_limit \in DiscoverLimits
    /\ d_page = 1
    /\ d_requests = <<>>
    /\ d_pages = <<>>
    /\ all_random_movies = <<>>
    /\ d_result = <<>>
    /\ InitRecommendIdle
    /\ InitPredictIdle
    /\ InitSpinIdle
    /\ InitGenresIdle
    /\ InitLateIdle

NextDiscover ==
    \/ \E a \in DiscoverAnswers : DiscoverReturns(a)
    \/ DiscoverFails

SpecDiscover == InitDiscover /\ [][NextDiscover]_vars

\* The number of pages, over limits on both sides of every step of line 108,
\* with a catalog whose pages are empty, hold one movie, or fail
PageLimits == {0, 9, 10, 29, 30, 39, 40, 49, 50, 60, 100}

PageAnswers == { <<>>, <<C_IT>> }

InitDiscoverPages ==
    /\ d_pc = "page"
    /\ d_watched = {}
    /\ d_limit \in PageLimits
    /\ d_page = 1
    /\ d_requests = <<>>
    /\ d_pages = <<>>
    /\ all_random_movies = <<>>
    /\ d_result = <<>>
    /\ InitRecommendIdle
    /\ InitPredictIdle
    /\ InitSpinIdle
    /\ InitGenresIdle
    /\ InitLateIdle

NextDiscoverPages ==
    \/ \E a \in PageAnswers : DiscoverReturns(a)
    \/ DiscoverFails

SpecDiscoverPages == InitDiscoverPages /\ [][NextDiscoverPages]_vars

----------------------------------------------------------------------------
(* MovieRecommendationService.spin_for_mood_movie *)

\* lines 147-151
Gory ==
    [keywords |->
        << <<"b", "l", "o", "o", "d">>,
           <<"g", "o", "r", "e">>,
           <<"v", "i", "o", "l", "e", "n", "t">>,
           <<"b", "r", "u", "t", "a", "l">>,
           <<"s", "l", "a", "s", "h", "e", "r">>,
           <<"t", "o", "r", "t", "u", "r", "e">> >>,
     genres |-> <<27, 53>>,
     sort_preference |-> "popularity.desc"]

\* lines 152-156
Creepy ==
    [keywords |->
        << <<"p", "s", "y", "c", "h", "o", "l", "o", "g", "i", "c", "a", "l">>,
           <<"d", "i", "s", "t", "u", "r", "b", "i", "n", "g">>,
           <<"u", "n", "s", "e", "t", "t", "l", "i", "n", "g">>,
           <<"p", "a", "r", "a", "n", "o", "r", "m", "a", "l">>,
           <<"h", "a", "u", "n", "t", "e", "d">> >>,
     genres |-> <<27, 9648, 53>>,
     sort_preference |-> "vote_average.desc"]

\* lines 157-161
Mysterious ==
    [keywords |->
        << <<"m", "y", "s", "t", "e", "r", "y">>,
           <<"p", "u", "z", "z", "l", "e">>,
           <<"i", "n", "v", "e", "s", "t", "i", "g", "a", "t", "i", "o", "n">>,
           <<"d", "e", "t", "e", "c", "t", "i", "v", "e">>,
           <<"s", "u", "p", "e", "r", "n", "a", "t", "u", "r", "a", "l">> >>,
     genres |-> <<9648, 27, 53>>,
     sort_preference |-> "vote_average.desc"]

\* lines 162-166
Jumpscare ==
    [keywords |->
        << <<"j", "u", "m", "p", " ", "s", "c", "a", "r", "e">>,
           <<"s", "u", "d", "d", "e", "n">>,
           <<"s", "t", "a", "r", "t", "l", "i", "n", "g">>,
           <<"s", "c", "a", "r", "y">>,
           <<"f", "r", "i", "g", "h", "t", "e", "n", "i", "n", "g">> >>,
     genres |-> <<27, 53>>,
     sort_preference |-> "popularity.desc"]

\* lines 167-171
BodyHorror ==
    [keywords |->
        << <<"b", "o", "d", "y", " ", "h", "o", "r", "r", "o", "r">>,
           <<"t", "r", "a", "n", "s", "f", "o", "r", "m", "a", "t", "i", "o", "n">>,
           <<"m", "u", "t", "a", "t", "i", "o", "n">>,
           <<"g", "r", "o", "t", "e", "s", "q", "u", "e">>,
           <<"f", "l", "e", "s", "h">>,
           <<"v", "i", "s", "c", "e", "r", "a", "l">>,
           <<"a", "n", "a", "t", "o", "m", "i", "c", "a", "l">> >>,
     genres |-> <<27, 878, 53>>,
     sort_preference |-> "vote_average.desc"]

\* lines 172-176
Paranoid ==
    [keywords |->
        << <<"p", "a", "r", "a", "n", "o", "i", "d">>,
           <<"c", "o", "n", "s", "p", "i", "r", "a", "c", "y">>,
           <<"s", "u", "r", "v", "e", "i", "l", "l", "a", "n", "c", "e">>,
           <<"p", "e", "r", "s", "e", "c", "u", "t", "i", "o", "n">>,
           <<"m", "a", "d", "n", "e", "s", "s">>,
           <<"d", "e", "l", "u", "s", "i", "o", "n">>,
           <<"r", "e", "a", "l", "i", "t", "y">> >>,
     genres |-> <<27, 53, 9648>>,
     sort_preference |-> "vote_average.desc"]

\* lines 146-177
mood_config ==
    ("gory" :> Gory)
    @@ ("creepy" :> Creepy)
    @@ ("mysterious" :> Mysterious)
    @@ ("jumpscare" :> Jumpscare)
    @@ ("body-horror" :> BodyHorror)
    @@ ("paranoid" :> Paranoid)

\* as config, but falling back to the second entry of the table
config_FallsBackToCreepy(mood) ==
    IF mood \in DOMAIN mood_config THEN mood_config[mood] ELSE mood_config["creepy"]

\* line 179: mood_config.get(mood, mood_config['gory'])
config(mood) ==
    IF mood \in DOMAIN mood_config THEN mood_config[mood] ELSE mood_config["gory"]

\* the moods of the table, and one that is not in it
Moods == DOMAIN mood_config \cup {"cozy"}

pages_to_search == 3

KeepRating == 70

O_BloodGore == <<"B", "l", "o", "o", "d", ",", " ", "g", "o", "r", "e">>

O_Haunted == <<"a", " ", "H", "a", "u", "n", "t", "e", "d", " ", "p", "u", "z", "z", "l", "e">>

O_Sudden == <<"s", "u", "d", "d", "e", "n", " ", "f", "l", "e", "s", "h", " ", "m", "a", "d", "n", "e", "s", "s">>

\* 'brutal, Brutal': a keyword of the gory mood, twice
O_Brutal == <<"b", "r", "u", "t", "a", "l", ",", " ", "B", "r", "u", "t", "a", "l">>

\* Catalog entries as /discover/movie answers them; vote_average in tenths
M_Blood ==
    [title |-> T_IT, overview |-> O_BloodGore, vote_average |-> 60,
     genre_ids |-> <<27>>]

M_Haunted ==
    [title |-> T_Saw, overview |-> O_Haunted, vote_average |-> 65,
     genre_ids |-> <<27, 9648>>]

M_Acclaimed == [title |-> T_Ring, vote_average |-> 80, genre_ids |-> <<53>>]

M_Sudden == [title |-> T_Seven, overview |-> O_Sudden, vote_average |-> 69]

M_Brutal == [title |-> T_it_, overview |-> O_Brutal]

ManyHits == 10

\* a page of well-rated movies without an overview
M_Hits == [i \in 1..ManyHits |-> [title |-> T_Ring, vote_average |-> 70 + i]]

SpinAnswers ==
    { <<>>, <<M_Blood, M_Sudden>>, <<M_Haunted, M_Acclaimed>>, <<M_Brutal, M_Blood>>,
      M_Hits }

SpinWatchedSets == { {}, {T_it}, {T_IT, T_saw} }

\* keyword in overview
Contains(str, sub) ==
    \E i \in 0..(Len(str) - Len(sub)) : SubSeq(str, i + 1, i + Len(sub)) = sub

\* lines 201-207: one point for each keyword the lower-cased overview holds
mood_score(keywords, movie) ==
    LET overview == Lower(Get(movie, "overview", <<>>))
    IN  Cardinality({i \in DOMAIN keywords : Contains(overview, keywords[i])})

\* as Keeps, but content with any vote_average
Keeps_AnyRating(score, movie) == score > 0 \/ Get(movie, "vote_average", 0) >= 0

\* line 210
Keeps(score, movie) == score > 0 \/ Get(movie, "vote_average", 0) >= KeepRating

\* lines 212-214: movie['genre_names'], movie['mood_score']
WithMood(movie, score) ==
    [k \in DOMAIN movie \cup {"genre_names", "mood_score"} |->
        IF k = "genre_names" THEN get_genre_names_for_movie(movie)
        ELSE IF k = "mood_score" THEN score
        ELSE movie[k]]

\* lines 197-215
mood_movies(keywords, ms, watched_titles) ==
    LET kept ==
            SelectSeq(ms, LAMBDA movie :
                /\ NormalizedTitle(movie.title) \notin watched_titles
                /\ Keeps(mood_score(keywords, movie), movie))
    IN  [i \in DOMAIN kept |-> WithMood(kept[i], mood_score(keywords, kept[i]))]

\* line 227: the key of the sort
MoodKey(x) == <<Get(x, "mood_score", 0), Get(x, "vote_average", 0)>>

\* comparison of two such tuples
KeyBelow(a, b) == a[1] < b[1] \/ (a[1] = b[1] /\ a[2] < b[2])

\* line 227: list.sort(key=..., reverse=True) is stable: an entry goes behind
\* the entries before it whose key is not below its own
RECURSIVE SortedByMood(_)
SortedByMood(ms) ==
    IF ms = <<>> THEN <<>>
    ELSE LET front == SortedByMood(SubSeq(ms, 1, Len(ms) - 1))
             x == ms[Len(ms)]
             n == Cardinality({i \in DOMAIN front :
                                  ~KeyBelow(MoodKey(front[i]), MoodKey(x))})
         IN  SubSeq(front, 1, n) \o <<x>> \o SubSeq(front, n + 1, Len(front))

\* as top_candidates, but the whole list
top_candidates_All(sorted) == sorted

\* line 230
top_candidates(sorted) == Take(sorted, Max(5, Len(sorted) \div 5))

\* the request of lines 188-194
SpinRequest ==
    [with_genres |-> config(s_mood).genres,
     page |-> s_page,
     sort_by |-> config(s_mood).sort_preference,
     vote_average_gte |-> 55,
     vote_count_gte |-> 100]

\* the end of an iteration of the loop of line 185: the next page, or
\* lines 223-232 after the last one
SpinPageDone(pool) ==
    IF s_page < pages_to_search
    THEN /\ s_pc' = "page"
         /\ s_page' = s_page + 1
         /\ all_mood_movies' = pool
         /\ s_result' = s_result
    ELSE /\ s_pc' = "done"
         /\ s_page' = s_page
         /\ IF pool = <<>>
            THEN /\ all_mood_movies' = pool
                 /\ s_result' = None
            ELSE /\ all_mood_movies' = SortedByMood(pool)
                 /\ \E i \in DOMAIN top_candidates(SortedByMood(pool)) :
                       s_result' = Some(top_candidates(SortedByMood(pool))[i])

\* lines 188-217: discover_movies answers
SpinReturns(ms) ==
    /\ s_pc = "page"
    /\ s_requests' = Append(s_requests, SpinRequest)
    /\ s_pages' = Append(s_pages, Some(ms))
    /\ SpinPageDone(all_mood_movies \o mood_movies(config(s_mood).keywords, ms, s_watched))
    /\ UNCHANGED <<s_mood, s_watched>>
    /\ UNCHANGED not_spin_vars

\* as SpinFails, but letting the exception out
SpinFails_Raises ==
    /\ s_pc = "page"
    /\ s_pc' = "raised"
    /\ s_requests' = Append(s_requests, SpinRequest)
    /\ s_pages' = Append(s_pages, None)
    /\ UNCHANGED <<s_mood, s_watched, s_page, all_mood_movies, s_result>>
    /\ UNCHANGED not_spin_vars

\* lines 219-221: discover_movies raises
SpinFails ==
    /\ s_pc = "page"
    /\ s_requests' = Append(s_requests, SpinRequest)
    /\ s_pages' = Append(s_pages, None)
    /\ SpinPageDone(all_mood_movies)
    /\ UNCHANGED <<s_mood, s_watched>>
    /\ UNCHANGED not_spin_vars

\* lines 179-185: the call has entered the loop
InitSpin ==
    /\ s_pc = "page"
    /\ s_mood \in Moods
    /\ s_watched \in SpinWatchedSets
    /\ s_page = 1
    /\ s_requests = <<>>
    /\ s_pages = <<>>
    /\ all_mood_movies = <<>>
    /\ s_result = None
    /\ InitRecommendIdle
    /\ InitPredictIdle
    /\ InitDiscoverIdle
    /\ InitGenresIdle
    /\ InitLateIdle

NextSpin ==
    \/ \E a \in SpinAnswers : SpinReturns(a)
    \/ SpinFails

SpecSpin == InitSpin /\ [][NextSpin]_vars

----------------------------------------------------------------------------
(* get_recommendations_for_movies: the accumulation of the seeds' candidates *)

\* What the seeds obtain (recs + similar), for up to TopSeeds seeds
SeedLists == SeqsUpTo(RelatedAnswers, TopSeeds)

\* The orders in which the candidates of n seeds can be accumulated; the loop
\* of line 39 uses the first, <<1, ..., n>>
SeedOrders(n) == { [i \in 1..n |-> f[i]] : f \in Permutations(1..n) }

InSeedOrder(n) == [i \in 1..n |-> i]

\* lines 72-81: all_recommendations after the seeds were handled in this order
Accumulated(lists, order) ==
    Concat([i \in DOMAIN order |-> filtered_recs(lists[order[i]])])

\* lines 72-98 for the order a_order
Accumulate ==
    /\ a_pc = "idle"
    /\ a_pc' = "done"
    /\ a_result' = unique_recs(Accumulated(a_lists, a_order), a_limit)
    /\ UNCHANGED <<a_lists, a_order, a_limit>>
    /\ UNCHANGED not_acc_vars

InitAccumulate ==
    /\ a_pc = "idle"
    /\ a_lists \in SeedLists
    /\ a_order \in SeedOrders(Len(a_lists))
    /\ a_limit \in Limits
    /\ a_result = <<>>
    /\ InitRecommendIdle
    /\ InitPredictIdle
    /\ InitDiscoverIdle
    /\ InitSpinIdle
    /\ InitGenresIdle
    /\ InitRoutesIdle
    /\ InitClientIdle

NextAccumulate == Accumulate

SpecAccumulate == InitAccumulate /\ [][NextAccumulate]_vars

----------------------------------------------------------------------------
(* src/api/routes/movies.py: rate_movie and remove_rating *)

\* The ratings the storage holds, in tenths: 'IT' and 'Saw' are in the
\* history, 'Ring' is not
RouteHistories == [{T_IT, T_Saw} -> {None, Some(50)}]

RouteTitles == {T_IT, T_Saw, T_Ring}

\* Argument rating (a float), in tenths: -1.0, 0, 0.9, 1, 5.5, 10, 10.1
RouteRatings == {-10, 0, 9, 10, 55, 100, 101}

\* as ValidRating, but from 0
ValidRating_FromZero(rating) == 0 <= rating /\ rating <= 100

\* line 19: 1 <= rating <= 10
ValidRating(rating) == 10 <= rating /\ rating <= 100

\* What the storage's rating mutation may do (lines 23, 36): return True
\* for a title it holds, return False, or raise
StorageOutcomes(title) ==
    (IF title \in DOMAIN r_history THEN {"true"} ELSE {}) \cup {"false", "raised"}

\* lines 22-29 and 35-42: `if not success` raises the 404 inside the try
\* block, and `except Exception` catches whatever the block raised (an
\* HTTPException is an Exception) and raises the 500 in its place
Answer(storage, failure) ==
    IF storage = "true"
    THEN [status |-> 200, detail |-> ""]
    ELSE [status |-> 500, detail |-> failure]

\* lines 16-30
RateMovie(title, rating, storage) ==
    /\ r_pc = "idle"
    /\ r_pc' = "done"
    /\ r_op' = "rate"
    /\ r_title' = title
    /\ r_rating' = rating
    /\ IF ~ValidRating(rating)
       THEN /\ r_status' = 400
            /\ r_detail' = "Rating must be between 1 and 10"
            /\ UNCHANGED <<r_history, r_calls, r_storage>>
       ELSE /\ storage \in StorageOutcomes(title)
            /\ r_calls' = r_calls + 1
            /\ r_storage' = storage
            /\ r_history' = IF storage = "true"
                            THEN [r_history EXCEPT ![title] = Some(rating)]
                            ELSE r_history
            /\ r_status' = Answer(storage, "Failed to rate movie").status
            /\ r_detail' = Answer(storage, "Failed to rate movie").detail
    /\ UNCHANGED not_route_vars

\* lines 32-43
RemoveRating(title, storage) ==
    /\ r_pc = "idle"
    /\ r_pc' = "done"
    /\ r_op' = "remove"
    /\ r_title' = title
    /\ storage \in StorageOutcomes(title)
    /\ r_calls' = r_calls + 1
    /\ r_storage' = storage
    /\ r_history' = IF storage = "true"
                    THEN [r_history EXCEPT ![title] = None]
                    ELSE r_history
    /\ r_status' = Answer(storage, "Failed to remove rating").status
    /\ r_detail' = Answer(storage, "Failed to remove rating").detail
    /\ UNCHANGED r_rating
    /\ UNCHANGED not_route_vars

InitRoutes ==
    /\ r_pc = "idle"
    /\ r_op = ""
    /\ r_title = <<>>
    /\ r_rating = 0
    /\ r_history \in RouteHistories
    /\ r_calls = 0
    /\ r_storage = ""
    /\ r_status = 0
    /\ r_detail = ""
    /\ InitRecommendIdle
    /\ InitPredictIdle
    /\ InitDiscoverIdle
    /\ InitSpinIdle
    /\ InitGenresIdle
    /\ InitAccumulateIdle
    /\ InitClientIdle

NextRoutes ==
    \/ \E title \in RouteTitles, rating \in RouteRatings :
          \E storage \in {"true", "false", "raised"} : RateMovie(title, rating, storage)
    \/ \E title \in RouteTitles :
          \E storage \in {"true", "false", "raised"} : RemoveRating(title, storage)

SpecRoutes == InitRoutes /\ [][NextRoutes]_vars

----------------------------------------------------------------------------
(* MovieRecommendationService.__init__, TMDBClient.__init__ and
   TMDBClient._make_request *)

\* The api_key argument and os.getenv('TMDB_API_KEY'): None, '' or 'k'
Credentials == {None, Some(<<>>), Some(<<"k">>)}

\* as Truthy, but true of the empty string
Truthy_NotNone(v) == v # None

\* the truth value of an Optional[str]: None and '' are false
Truthy(v) == v # None /\ v[1] # <<>>

\* tmdb_client.py line 23: api_key or os.getenv('TMDB_API_KEY')
ApiKey(arg, env) == IF Truthy(arg) THEN arg ELSE env

\* The endpoints the client asks for (lines 44, 53, 60, 100)
Endpoints == {"search/movie", "movie/id/recommendations", "movie/id/similar", "discover/movie"}

MaxRequests == 3

\* recommendation_service.py lines 21-22 and tmdb_client.py lines 22-28:
\* ValueError('TMDB API key is required') or a client with a session
Construct ==
    /\ k_pc = "new"
    /\ k_api_key' = ApiKey(k_arg, k_env)
    /\ k_pc' = IF ~Truthy(ApiKey(k_arg, k_env)) THEN "failed" ELSE "ready"
    /\ UNCHANGED <<k_arg, k_env, k_requests>>
    /\ UNCHANGED not_client_vars

\* tmdb_client.py lines 30-40: a call of the constructed client
MakeRequest(endpoint) ==
    /\ k_pc = "ready"
    /\ Len(k_requests) < MaxRequests
    /\ k_requests' = Append(k_requests, [endpoint |-> endpoint, api_key |-> k_api_key])
    /\ UNCHANGED <<k_pc, k_arg, k_env, k_api_key>>
    /\ UNCHANGED not_client_vars

InitConstruct ==
    /\ k_pc = "new"
    /\ k_arg \in Credentials
    /\ k_env \in Credentials
    /\ k_api_key = None
    /\ k_requests = <<>>
    /\ InitRecommendIdle
    /\ InitPredictIdle
    /\ InitDiscoverIdle
    /\ InitSpinIdle
    /\ InitGenresIdle
    /\ InitAccumulateIdle
    /\ InitRoutesIdle

NextConstruct ==
    \/ Construct
    \/ \E endpoint \in Endpoints : MakeRequest(endpoint)

SpecConstruct == InitConstruct /\ [][NextConstruct]_vars

----------------------------------------------------------------------------
(* Properties of get_recommendations_for_movies *)

Returned == pc = "done"

\* the entries of pool whose title no earlier entry has, in order
FirstSeen(pool) ==
    LET idx == [i \in 1..Len(pool) |-> i]
        first == SelectSeq(idx,
                    LAMBDA i : \A j \in 1..(i - 1) : pool[j].title # pool[i].title)
    IN  [k \in DOMAIN first |-> pool[first[k]]]

AllCallsFailed ==
    /\ calls.failed > 0
    /\ calls.failed = calls.search + calls.recommendations + calls.similar

\* C1: the list recommend returns never holds two results whose titles are
\* equal after lower-casing and trimming surrounding whitespace.
C1_NoTwoResultsWithTheSameNormalizedTitle ==
    Returned =>
        \A i, j \in DOMAIN result :
            i # j => NormalizedTitle(result[i].title) # NormalizedTitle(result[j].title)

\* C2: for every limit N, N = 0 included, recommend returns the first N
\* entries of the pool that differ in title, in first-seen order: at most N
\* results, and fewer than N only when the pool holds fewer than N of them.
C2_ResultIsFirstLimitDistinctOfPool ==
    Returned =>
        /\ Len(result) <= limit
        /\ Len(result) < limit => Len(FirstSeen(all_recommendations)) < limit
        /\ result = Take(FirstSeen(all_recommendations), limit)

\* C3: no result of recommend has the title of an item of the history that
\* was passed in.
C3_ResultsAreUnseen ==
    Returned =>
        \A i \in DOMAIN result : \A j \in DOMAIN movies :
            result[i].title # movies[j].title

\* C4: a catalog call that fails never makes recommend raise; the step on
\* which a call fails leaves the pool as it was and goes on to the next seed,
\* or, after the last seed, returns; what is returned comes from the pool;
\* when every catalog call made has failed the result is the empty list.
C4_FailedSeedIsSkipped ==
    /\ [](pc # "raised")
    /\ [][calls'.failed > calls.failed =>
            /\ all_recommendations' = all_recommendations
            /\ \/ pc' = "search" /\ seed' = seed + 1 /\ seed' \in DOMAIN top_movies
               \/ pc' = "done" /\ seed = Len(top_movies)]_vars
    /\ [](Returned => Range(result) \subseteq Range(all_recommendations))
    /\ [](Returned /\ AllCallsFailed => result = <<>>)

\* a seed failed, and the result holds what another seed contributed
C4_Witness ==
    /\ Returned
    /\ calls.failed > 0
    /\ Len(top_movies) = 2
    /\ result # <<>>

\* C6: every result of recommend has a genre id among 27, 53 and 9648; a
\* candidate with none of them, or with no genre_ids at all, is never in the
\* pool nor in the result.
C6_ResultsAreHorrorThrillerOrMystery ==
    \A rec \in Range(result) \cup Range(all_recommendations) :
        /\ "genre_ids" \in DOMAIN rec
        /\ \E k \in DOMAIN rec.genre_ids : rec.genre_ids[k] \in {27, 53, 9648}

\* both related answers were <<C_IT, C_Drama>>, the only answer that holds
\* C_IT: the drama was offered twice and is not in the pool
C6_Witness ==
    /\ Returned
    /\ calls.recommendations = 1
    /\ calls.similar = 1
    /\ all_recommendations = <<C_IT, C_IT>>
    /\ result = <<C_IT>>

----------------------------------------------------------------------------
(* Properties of the choice of the seeds *)

RatedPositions == {i \in DOMAIN movies : movies[i].rating # None}

HighPositions == {i \in RatedPositions : movies[i].rating[1] >= 7}

SeedCandidates == IF HighPositions # {} THEN HighPositions ELSE RatedPositions

\* C5: the seeds are the (up to) 3 highest-rated of the items rated >= 7.0,
\* in descending order of rating; only when no item is rated >= 7.0 are they
\* the (up to) 3 highest-rated of all rated items; with no rated item the
\* empty list is returned and no catalog call is made. A seed rated < 7.0 is
\* never searched for when an item rated >= 7.0 exists.
C5_SeedsAreTheHighestRated ==
    pc # "idle" =>
        /\ RatedPositions = {} =>
              /\ Returned
              /\ result = <<>>
              /\ top_movies = <<>>
              /\ calls = NoCalls
        /\ RatedPositions # {} =>
              /\ Len(top_movies) = Min(3, Cardinality(SeedCandidates))
              /\ Range(top_movies) \subseteq SeedCandidates
              /\ \A a, b \in DOMAIN top_movies :
                    a < b => /\ top_movies[a] # top_movies[b]
                             /\ movies[top_movies[a]].rating[1]
                                    >= movies[top_movies[b]].rating[1]
              /\ \A i \in Range(top_movies) :
                    \A j \in SeedCandidates \ Range(top_movies) :
                        movies[i].rating[1] >= movies[j].rating[1]
              /\ seed \in DOMAIN top_movies
              /\ HighPositions # {} => movies[top_movies[seed]].rating[1] >= 7

\* one item is rated >= 7.0, other rated items are not: the only seed is the
\* high-rated one, and it was searched for
C5_Witness ==
    /\ Returned
    /\ Cardinality(HighPositions) = 1
    /\ Cardinality(RatedPositions) >= 3
    /\ Len(top_movies) = 1
    /\ calls.search > 0

----------------------------------------------------------------------------
(* Properties of the prediction service *)

PRated == {i \in DOMAIN p_movies : p_movies[i].rating # None}

PUnrated == DOMAIN p_movies \ PRated

\* the position in p_movies of the k-th unrated movie
NthUnrated(k) == CHOOSE i \in PUnrated : Cardinality({j \in PUnrated : j < i}) = k - 1

PRatedMovies == SelectSeq(p_movies, LAMBDA m : m.rating # None)

\* C7: batchPredict returns the empty list whenever fewer than 2 of the
\* movies it is given are rated, however many are unrated.
C7_FewerThanTwoRatedGivesNoPredictions ==
    p_pc = "batch" /\ Cardinality(PRated) < 2 => p_result = <<>>

\* one rated movie and several unrated ones
C7_Witness ==
    /\ p_pc = "batch"
    /\ Cardinality(PRated) = 1
    /\ Cardinality(PUnrated) >= 2
    /\ p_result = <<>>

\* C8: with at least 2 rated movies, batchPredict returns one prediction per
\* unrated movie, in the order the unrated movies have in the input, each
\* holding what predictRating gives for that movie against all the rated
\* movies; no rated movie is in the output.
C8_OnePredictionPerUnratedMovieInOrder ==
    p_pc = "batch" /\ Cardinality(PRated) >= 2 =>
        /\ Len(p_result) = Cardinality(PUnrated)
        /\ \A k \in DOMAIN p_result :
              LET movie == p_movies[NthUnrated(k)]
                  p == predict_rating(movie, PRatedMovies)
              IN  /\ p_result[k].title = movie.title
                  /\ p_result[k].year = movie.year
                  /\ p_result[k].genres = Get(movie, "genres", <<>>)
                  /\ p_result[k].predicted_rating = p[1]
                  /\ p_result[k].confidence = p[2]

\* two different unrated movies, with rated movies before, between and after
C8_Witness ==
    /\ p_pc = "batch"
    /\ Cardinality(PRated) >= 3
    /\ Len(p_result) = 2
    /\ p_result[1].title # p_result[2].title
    /\ p_result[1].predicted_rating # p_result[2].predicted_rating
    /\ p_movies[1].rating # None
    /\ p_movies[Len(p_movies)].rating # None

\* C9: predictRating returns a predicted rating in [1, 10] and a confidence
\* in [0, 1] (10..100 and 0..10 in tenths), for every movie and every
\* history whose ratings lie in [1, 10], the empty one included.
C9_PredictionIsWithinTheScales ==
    p_pc = "single" =>
        /\ p_result[1] \in 10..100
        /\ p_result[2] \in 0..10

\* no rated movie shares a genre, and the mean of all ratings is 10.0
C9_Witness ==
    /\ p_pc = "single"
    /\ Len(p_movies) >= 2
    /\ p_result = <<100, 3>>

RECURSIVE SumOfRatings(_)
SumOfRatings(S) ==
    IF S = {} THEN 0
    ELSE LET i == CHOOSE i \in S : TRUE
         IN  p_movies[i].rating[1] + SumOfRatings(S \ {i})

\* the rated movies of the history that share a genre with the movie asked about
POverlapping ==
    {i \in PRated :
        Range(Get(p_movies[i], "genres", <<>>))
            \cap Range(Get(p_movie, "genres", <<>>)) # {}}

\* C10: when a rated movie of the history shares a genre with the movie,
\* predictRating returns the mean of the ratings of exactly the k rated
\* movies that share a genre with it, each counted once, rounded to one
\* decimal, with confidence min(0.9, k/5); one such movie rated 8 gives
\* (8.0, 0.2).
C10_MeanOfOverlappingRatings ==
    p_pc = "single" =>
        /\ POverlapping # {} =>
              LET k == Cardinality(POverlapping)
                  total == SumOfRatings(POverlapping)
              IN  /\ 2 * (10 * total - p_result[1] * k) <= k
                  /\ 2 * (p_result[1] * k - 10 * total) <= k
                  /\ p_result[2] = (IF 2 * k <= 9 THEN 2 * k ELSE 9)
        /\ (p_movies = <<P_Thriller8>> /\ Get(p_movie, "genres", <<>>) = <<"Horror">>) =>
              p_result = <<80, 2>>

\* two genres are shared with one rated movie and one with another
C10_Witness ==
    /\ p_pc = "single"
    /\ Cardinality(POverlapping) = 2
    /\ Cardinality(PRated) = 3
    /\ p_movie = P_UnratedThriller
    /\ p_result = <<45, 4>>

\* C11: when the rated history is not empty and no rated movie shares a genre
\* with the movie, predictRating returns the mean of all the ratings of the
\* history rounded to one decimal, with confidence exactly 0.3; ratings 6 and
\* 10 with no overlap give (8.0, 0.3).
C11_MeanOfAllRatingsWhenNoOverlap ==
    p_pc = "single" =>
        /\ (PRated # {} /\ POverlapping = {}) =>
              LET k == Cardinality(PRated)
                  total == SumOfRatings(PRated)
              IN  /\ 2 * (10 * total - p_result[1] * k) <= k
                  /\ 2 * (p_result[1] * k - 10 * total) <= k
                  /\ p_result[2] = 3
        /\ (p_movies = <<P_Drama6, P_Comedy10>>
              /\ Get(p_movie, "genres", <<>>) = <<"Horror">>) =>
              p_result = <<80, 3>>

\* a drama rated 6 and a comedy rated 10, asked about a horror movie
C11_Witness ==
    /\ p_pc = "single"
    /\ p_movies = <<P_Drama6, P_Comedy10>>
    /\ Get(p_movie, "genres", <<>>) = <<"Horror">>
    /\ POverlapping = {}
    /\ p_result = <<80, 3>>

\* C12: predictRating has no error path: for an empty history it returns the
\* fixed prior (7.0, 0.3), and for every other movie and history, entries
\* that carry no rating included, it returns a value and never raises.
C12_PredictRatingNeverRaises ==
    p_pc \in {"single", "raised"} =>
        /\ p_pc = "single"
        /\ Len(p_result) = 2
        /\ p_movies = <<>> => p_result = <<70, 3>>

----------------------------------------------------------------------------
(* Properties of get_random_horror_movies *)

DReturned == d_pc = "done"

\* C13: discoverUnseen never returns a candidate whose title matches, without
\* regard to case and surrounding whitespace, a title of excludeTitles,
\* whatever set the caller passes and whatever the catalog answers.
C13_NoExcludedTitleIsReturned ==
    DReturned =>
        \A i \in DOMAIN d_result : \A title \in d_watched :
            NormalizedTitle(d_result[i].title) # NormalizedTitle(title)

\* the candidates of a page whose normalized title is not in excludeTitles
NotExcluded(page) ==
    SelectSeq(page, LAMBDA movie : NormalizedTitle(movie.title) \notin d_watched)

\* the candidates the exclusion leaves of the pages that were answered
DPool ==
    Concat([i \in DOMAIN d_pages |->
               IF d_pages[i] = None THEN <<>> ELSE NotExcluded(d_pages[i][1])])

\* a returned movie as the catalog gave it
AsAnswered(movie) == [k \in DOMAIN movie \ {"genre_names"} |-> movie[k]]

DReturnedCount(movie) ==
    Cardinality({i \in DOMAIN d_result : AsAnswered(d_result[i]) = movie})

DPoolCount(movie) == Cardinality({i \in DOMAIN DPool : DPool[i] = movie})

\* C14: discoverUnseen never raises on a page failure, goes on to the pages
\* left, and returns exactly min(limit, poolSize) candidates, where the pool
\* is the concatenation of the non-excluded candidates of every page whose
\* discover call succeeded; every returned candidate is of the pool and none
\* is returned more often than it occurs in the pool.
C14_ReturnsMinLimitPoolSizeOfThePool ==
    /\ d_pc \in {"page", "done"}
    /\ DReturned =>
          /\ Len(d_pages) = pages_to_fetch(d_limit)
          /\ Len(d_result) = Min(d_limit, Len(DPool))
          /\ \A i \in DOMAIN d_result :
                LET movie == AsAnswered(d_result[i])
                IN  /\ DPoolCount(movie) >= 1
                    /\ DReturnedCount(movie) <= DPoolCount(movie)

\* the first page failed, the second gave more candidates than asked for
C14_Witness ==
    /\ DReturned
    /\ d_pages[1] = None
    /\ d_watched # {}
    /\ d_limit >= 1
    /\ Len(DPool) > d_limit
    /\ Len(d_result) = d_limit

----------------------------------------------------------------------------
(* Properties of spin_for_mood_movie *)

SReturned == s_pc = "done"

\* the pool the call with a mood of the table makes of the pages answered so
\* far, in page order
SPoolOf(mood) ==
    Concat([i \in DOMAIN s_pages |->
               IF s_pages[i] = None THEN <<>>
               ELSE mood_movies(mood_config[mood].keywords, s_pages[i][1], s_watched)])

\* what that call may return
SReturnsOf(mood) ==
    IF SPoolOf(mood) = <<>> THEN {None}
    ELSE {Some(c) : c \in Range(top_candidates(SortedByMood(SPoolOf(mood))))}

\* C15: spinForMood called with a mood that is not in the configuration
\* table does not fail: it behaves as the call with the mood 'gory' (genres
\* {27, 53}, sort popularity.desc, the gory keywords) on the same catalog
\* responses and excludeTitles: the same requests, the same pool, the same
\* possible results.
C15_UnknownMoodBehavesAsGory ==
    s_mood \notin DOMAIN mood_config =>
        /\ s_pc \in {"page", "done"}
        /\ \A i \in DOMAIN s_requests :
              /\ s_requests[i].with_genres = <<27, 53>>
              /\ s_requests[i].sort_by = "popularity.desc"
              /\ s_requests[i].page = i
        /\ s_pc = "page" => all_mood_movies = SPoolOf("gory")
        /\ SReturned =>
              /\ Len(s_requests) = 3
              /\ all_mood_movies = SortedByMood(SPoolOf("gory"))
              /\ s_result \in SReturnsOf("gory")

\* an unknown mood returned a movie whose overview holds two gory keywords
C15_Witness ==
    /\ s_mood = "cozy"
    /\ SReturned
    /\ Len(s_requests) = 3
    /\ s_result # None
    /\ s_result[1].mood_score = 2
    /\ Get(s_result[1], "overview", <<>>) = O_BloodGore

\* the keywords of the mood, those of 'gory' for a mood the table lacks
SKeywords ==
    IF s_mood \in DOMAIN mood_config
    THEN Range(mood_config[s_mood].keywords)
    ELSE Range(Gory.keywords)

\* how many keywords the overview of the movie holds, without regard to case
KeywordHits(movie) ==
    Cardinality({k \in SKeywords : Contains(Lower(Get(movie, "overview", <<>>)), k)})

SVote(movie) == Get(movie, "vote_average", 0)

SExcluded(movie) == NormalizedTitle(movie.title) \in s_watched

\* the candidates of the pages that were answered
SCandidates ==
    UNION { IF s_pages[i] = None THEN {} ELSE Range(s_pages[i][1]) : i \in DOMAIN s_pages }

\* C16: a candidate returned by spinForMood is not in excludeTitles (by its
\* lower-cased, trimmed title) and satisfies the keep rule: its keyword
\* score is > 0 or its externalScore is >= 7.0; a candidate with score 0 and
\* externalScore < 7.0 is never returned.
C16_ReturnedCandidateIsUnseenAndKept ==
    SReturned /\ s_result # None =>
        LET c == s_result[1]
        IN  /\ ~SExcluded(c)
            /\ c.mood_score = KeywordHits(c)
            /\ c.mood_score > 0 \/ SVote(c) >= 70
            /\ ~(KeywordHits(c) = 0 /\ SVote(c) < 70)

\* a movie kept for its rating alone was returned, while the pages held an
\* excluded candidate and one that fails the keep rule
C16_Witness ==
    /\ SReturned
    /\ s_result # None
    /\ s_result[1].mood_score = 0
    /\ SVote(s_result[1]) >= 70
    /\ \E c \in SCandidates : SExcluded(c)
    /\ \E c \in SCandidates : ~SExcluded(c) /\ KeywordHits(c) = 0 /\ SVote(c) < 70

\* the pool in page order, before the sort
SPagePool ==
    LET Kept(page) ==
            SelectSeq(page, LAMBDA c :
                ~SExcluded(c) /\ (KeywordHits(c) > 0 \/ SVote(c) >= 70))
    IN  Concat([i \in DOMAIN s_pages |->
                   IF s_pages[i] = None THEN <<>> ELSE Kept(s_pages[i][1])])

SPair(c) == <<KeywordHits(c), SVote(c)>>

SPairBelow(a, b) == a[1] < b[1] \/ (a[1] = b[1] /\ a[2] < b[2])

\* the place in the descending order of the i-th of the entries with these
\* pairs, entries of equal pairs staying in page order
SPlace(pairs, i) ==
    1 + Cardinality({j \in DOMAIN pairs :
                        \/ SPairBelow(pairs[i], pairs[j])
                        \/ (pairs[j] = pairs[i] /\ j < i)})

SShortlistSize == Max(5, Len(SPagePool) \div 5)

\* a returned movie as the catalog gave it
SAsAnswered(movie) == [k \in DOMAIN movie \ {"genre_names", "mood_score"} |-> movie[k]]

\* C17: the candidate returned by spinForMood is a member of the shortlist,
\* the first max(5, floor(poolSize/5)) entries of the pool sorted descending
\* by (keywordScore, externalScore); every pool entry outside the shortlist
\* has a pair that is not above that of the returned candidate.
C17_ReturnedCandidateIsOfTheShortlist ==
    SReturned /\ s_result # None =>
        LET pool == SPagePool
            pairs == [i \in DOMAIN pool |-> SPair(pool[i])]
            size == Max(5, Len(pool) \div 5)
            outside == {i \in DOMAIN pool : SPlace(pairs, i) > size}
            mine == SPair(s_result[1])
        IN  /\ \E i \in DOMAIN pool \ outside : pool[i] = SAsAnswered(s_result[1])
            /\ \A i \in outside : ~SPairBelow(mine, pairs[i])
            /\ \A i \in DOMAIN all_mood_movies :
                  all_mood_movies[i].mood_score = KeywordHits(all_mood_movies[i])

\* a pool of 30 or more, where the shortlist has floor(poolSize/5) > 5
\* entries, and the returned movie is the last of the shortlist
C17_Witness ==
    /\ SReturned
    /\ s_result # None
    /\ Len(SPagePool) >= 30
    /\ SShortlistSize > 5
    /\ s_result[1] = all_mood_movies[SShortlistSize]
    /\ SPairBelow(SPair(all_mood_movies[SShortlistSize + 1]), SPair(s_result[1]))

\* no candidate of an answered page is both outside excludeTitles and kept
SPoolIsEmpty ==
    \A c \in SCandidates : SExcluded(c) \/ (KeywordHits(c) = 0 /\ SVote(c) < 70)

\* C18: spinForMood returns the null 'no match' result, and never raises,
\* whenever the accumulated pool is empty: when all 3 discover pages fail,
\* when they return no candidates, or when every candidate is excluded or
\* fails the keep rule; it returns a candidate whenever the pool is not empty.
C18_NoMatchExactlyWhenThePoolIsEmpty ==
    /\ s_pc \in {"page", "done"}
    /\ SReturned =>
          /\ Len(s_pages) = 3
          /\ (s_result = None) <=> SPoolIsEmpty
          /\ s_result # None => SAsAnswered(s_result[1]) \in SCandidates

\* no match: one page failed, one was empty, and the candidates of the third
\* were excluded or failed the keep rule
C18_Witness ==
    /\ SReturned
    /\ s_result = None
    /\ s_pages[1] = None
    /\ s_pages[2] = Some(<<>>)
    /\ s_pages[3] # None
    /\ \E c \in Range(s_pages[3][1]) : SExcluded(c)
    /\ \E c \in Range(s_pages[3][1]) : ~SExcluded(c) /\ KeywordHits(c) = 0

----------------------------------------------------------------------------
(* Properties of _get_genre_names_for_movie *)

GGenreIds == Get(g_movie, "genre_ids", <<>>)

\* C19: genre-id resolution maps every genre id that is not in the static
\* table to the label "Unknown": the output has one name per input id, in
\* order, with "Unknown" at the position of each unknown id.
C19_UnknownIdsResolveToUnknown ==
    g_pc = "done" =>
        /\ Len(g_names) = Len(GGenreIds)
        /\ \A i \in DOMAIN GGenreIds :
              g_names[i] = IF GGenreIds[i] \in DOMAIN genre_map
                           THEN genre_map[GGenreIds[i]]
                           ELSE "Unknown"

\* the reversed table: the ids a name stands for
ReverseLookup(name) == {genre_id \in DOMAIN genre_map : GenreName(genre_id) = name}

GKnownIds == SelectSeq(GGenreIds, LAMBDA genre_id : genre_id \in DOMAIN genre_map)

\* C20: the static genre table is invertible: no two genre ids map to the
\* same name, so resolving an id of the table to its name and looking the
\* name up in the reversed table returns the original id, for every entry
\* of the table and every name the resolution returns.
C20_GenreTableIsInvertible ==
    /\ \A genre_id \in DOMAIN genre_map : ReverseLookup(GenreName(genre_id)) = {genre_id}
    /\ g_pc = "done" =>
          /\ Len(g_names) = Len(GKnownIds)
          /\ \A i \in DOMAIN g_names : ReverseLookup(g_names[i]) = {GKnownIds[i]}

\* two different ids of the table were resolved
C20_Witness ==
    /\ g_pc = "done"
    /\ Len(g_names) = 2
    /\ g_names[1] # g_names[2]
    /\ ReverseLookup(g_names[1]) = {GGenreIds[1]}

----------------------------------------------------------------------------
(* Properties of the accumulation of the seeds' candidates *)

\* what the call returns, the seeds being handled in seed order
AInOrder == unique_recs(Accumulated(a_lists, InSeedOrder(Len(a_lists))), a_limit)

ATitles(rs) == {rs[i].title : i \in DOMAIN rs}

\* C21 as stated: accumulating the per-seed candidate lists in any
\* permutation of the seeds yields the same result list after deduplication
\* and truncation.
C21_AnyOrderGivesTheSameList ==
    a_pc = "done" => a_result = AInOrder

\* C21, amended: accumulating the per-seed candidate lists in any
\* permutation of the seeds yields a result of the same length, drawn from
\* the same pool of titles; it holds the same titles as the result in seed
\* order whenever that result holds every title of the pool, that is when
\* nothing was truncated. The order of the list, and under truncation its
\* members, depend on the order of the seeds.
C21_AnyOrderGivesTheSameTitlesUnlessTruncated ==
    a_pc = "done" =>
        LET pool == Accumulated(a_lists, InSeedOrder(Len(a_lists)))
        IN  /\ Len(a_result) = Len(AInOrder)
            /\ ATitles(a_result) \subseteq ATitles(pool)
            /\ Len(AInOrder) = Cardinality(ATitles(pool)) =>
                  ATitles(a_result) = ATitles(AInOrder)

\* three seeds accumulated in another order: the same two titles, in another
\* order
C21_Witness ==
    /\ a_pc = "done"
    /\ Len(a_lists) = 3
    /\ a_order # InSeedOrder(3)
    /\ Len(a_result) = 2
    /\ a_result # AInOrder
    /\ ATitles(a_result) = ATitles(AInOrder)

----------------------------------------------------------------------------
(* Properties of the confidence of predict_rating *)

\* C30: the confidence predictRating returns is 0.2, 0.4, 0.6, 0.8 or 0.9
\* for k = 1, 2, 3, 4 and k >= 5 rated movies that share a genre, and 0.3
\* for an empty history or no overlap (in tenths); so it never exceeds 0.9,
\* does not decrease in k from k = 1 on, and is lower for one overlapping
\* movie than for none.
C30_ConfidenceTakesSixValues ==
    p_pc = "single" =>
        LET k == Cardinality(POverlapping)
            confidence == p_result[2]
        IN  /\ confidence \in {2, 4, 6, 8, 9, 3}
            /\ confidence <= 9
            /\ k = 0 <=> confidence = 3
            /\ k = 1 <=> confidence = 2
            /\ k = 2 <=> confidence = 4
            /\ k = 3 <=> confidence = 6
            /\ k = 4 <=> confidence = 8
            /\ k >= 5 <=> confidence = 9
            /\ k = 1 => confidence < 3

\* five rated movies share a genre with the movie asked about
C30_Witness ==
    /\ p_pc = "single"
    /\ Cardinality(POverlapping) = 5
    /\ p_result[2] = 9

----------------------------------------------------------------------------
(* Properties of the catalog lookups of get_recommendations_for_movies *)

\* the seed whose lookup is under way
LSeed == movies[top_movies[seed]]

\* the results of a whose release_date starts with the four characters of year
LOfYear(a, year) ==
    {i \in DOMAIN a :
        /\ "release_date" \in DOMAIN a[i]
        /\ Len(a[i].release_date) >= 4
        /\ \A k \in 1..4 : a[i].release_date[k] = year[k]}

\* the id a non-empty answer a decides for a seed
LDecided(movie, a) ==
    IF Len(movie.year) = 4 /\ LOfYear(a, movie.year) # {}
    THEN a[CHOOSE i \in LOfYear(a, movie.year) :
                \A j \in LOfYear(a, movie.year) : i <= j].id
    ELSE a[1].id

LSearchAnswered ==
    pc = "search" /\ calls'.search = calls.search + 1 /\ calls'.failed = calls.failed

\* C24: the variants of a seed's title are searched in order; the first
\* non-empty answer decides the id (the first result of the seed's year when
\* the seed has a year and the answer holds one, else the first result) and
\* ends the seed's searches; an empty answer leads to the next variant and,
\* after the last, to the next seed (or the return) with the pool as it was.
C24_FirstNonEmptySearchDecidesTheMatch ==
    [][/\ LSearchAnswered =>
            \/ /\ pc' = "recommendations"
               /\ seed' = seed
               /\ variation' = variation
               /\ \E a \in SearchAnswers \ {<<>>} : movie_id' = <<LDecided(LSeed, a)>>
            \/ /\ variation < 3
               /\ pc' = "search"
               /\ seed' = seed
               /\ variation' = variation + 1
               /\ movie_id' = <<>>
               /\ all_recommendations' = all_recommendations
            \/ /\ variation = 3
               /\ all_recommendations' = all_recommendations
               /\ \/ pc' = "search" /\ seed' = seed + 1 /\ seed' \in DOMAIN top_movies
                  \/ pc' = "done" /\ seed = Len(top_movies)
       /\ pc' = "search" =>
            \/ pc = "search" /\ seed' = seed /\ variation' = variation + 1
            \/ seed' = seed + 1 /\ variation' = 1
       /\ pc \in {"recommendations", "similar"} => movie_id # <<>> /\ movie_id' \in {movie_id, <<>>}]_vars

\* 'IT' of 2017: the first variant found nothing, the second answer holds
\* the result of 2017 in second place
C24_Witness ==
    /\ pc = "recommendations"
    /\ LSeed.title = T_IT
    /\ variation = 2
    /\ calls.search = 2
    /\ movie_id = <<2>>

LIsPrefix(a, b) == Len(a) <= Len(b) /\ SubSeq(b, 1, Len(a)) = a

\* C27: a seed contributes all or nothing: a step on which a catalog call
\* fails, with or without candidates already obtained for the seed, leaves
\* the pool as it was; the pool changes only when the seed's last call
\* (similar) answers, and what it held before stays, in place, at its front.
C27_SeedContributesAllOrNothing ==
    [][/\ calls'.failed > calls.failed =>
            /\ all_recommendations' = all_recommendations
            /\ recs' = <<>>
       /\ all_recommendations' # all_recommendations =>
            /\ pc = "similar"
            /\ calls'.similar = calls.similar + 1
            /\ calls'.failed = calls.failed
            /\ LIsPrefix(all_recommendations, all_recommendations')
            /\ LIsPrefix(all_recommendations \o filtered_recs(recs), all_recommendations')
       /\ pc = "recommendations" => all_recommendations' = all_recommendations]_vars

\* two seeds, both got an answer to recommendations, the similar call of one
\* of them failed, and the pool holds what the other contributed
C27_Witness ==
    /\ Returned
    /\ Len(top_movies) = 2
    /\ calls.recommendations = 2
    /\ calls.similar = 2
    /\ calls.failed = 1
    /\ all_recommendations # <<>>

----------------------------------------------------------------------------
(* Properties of the pages of get_random_horror_movies *)

\* the number of pages the claim gives for a limit
DPagesFor(lim) ==
    IF lim < 30 THEN 2 ELSE IF lim < 40 THEN 3 ELSE IF lim < 50 THEN 4 ELSE 5

\* C25: get_random_horror_movies asks for exactly clamp(limit div 10, 2, 5)
\* pages, pages 1, 2, ... in ascending order, whether or not a page fails:
\* 2 pages for limit < 30, 3 for 30..39, 4 for 40..49, 5 from 50 on.
C25_AsksForClampedNumberOfPagesInOrder ==
    /\ \A i \in DOMAIN d_requests : d_requests[i].page = i
    /\ Len(d_pages) = Len(d_requests)
    /\ d_pc = "page" => Len(d_requests) = d_page - 1 /\ Len(d_requests) < DPagesFor(d_limit)
    /\ d_pc = "done" => Len(d_requests) = DPagesFor(d_limit)

\* limit 39: three pages, the second of which failed
C25_Witness ==
    /\ d_pc = "done"
    /\ d_limit = 39
    /\ Len(d_requests) = 3
    /\ d_pages[1] # None
    /\ d_pages[2] = None
    /\ d_requests[3].page = 3

----------------------------------------------------------------------------
(* Properties of the mood score of spin_for_mood_movie *)

\* the places of the lower-cased overview of movie where a keyword of the
\* mood starts, as pairs of keyword and place
SOccurrences(movie) ==
    LET overview == Lower(Get(movie, "overview", <<>>))
    IN  {p \in SKeywords \X (1..Len(overview)) :
            /\ p[2] + Len(p[1]) - 1 <= Len(overview)
            /\ SubSeq(overview, p[2], p[2] + Len(p[1]) - 1) = p[1]}

\* C26: the mood score attached to every candidate of the pool is the
\* number of occurrences of the mood's keywords in its overview, matched
\* case-insensitively as substrings (a keyword that occurs twice counts 2).
C26_MoodScoreCountsOccurrences ==
    \A i \in DOMAIN all_mood_movies :
        all_mood_movies[i].mood_score = Cardinality(SOccurrences(all_mood_movies[i]))

----------------------------------------------------------------------------
(* Properties of the calls of one run of get_recommendations_for_movies *)

\* the seeds are in descending rating order, ties in history order
QSeedsInOrder ==
    \A i, j \in DOMAIN top_movies :
        i < j =>
            \/ movies[top_movies[i]].rating[1] > movies[top_movies[j]].rating[1]
            \/ /\ movies[top_movies[i]].rating[1] = movies[top_movies[j]].rating[1]
               /\ top_movies[i] < top_movies[j]

\* the calls made so far, counted from the place of the run: three searches
\* and one call of each related list for a seed that is over
QCallsWithinTheSeeds ==
    /\ Len(top_movies) <= 3
    /\ seed <= Len(top_movies)
    /\ calls.search <= 9 /\ calls.recommendations <= 3 /\ calls.similar <= 3
    /\ calls.similar <= calls.recommendations
    /\ calls.recommendations <= calls.search
    /\ pc = "search" =>
          /\ variation \in 1..3
          /\ calls.search <= 3 * (seed - 1) + (variation - 1)
          /\ calls.recommendations <= seed - 1
    /\ pc = "recommendations" =>
          /\ movie_id # <<>>
          /\ calls.search <= 3 * (seed - 1) + variation
          /\ calls.recommendations <= seed - 1
    /\ pc = "similar" =>
          /\ movie_id # <<>>
          /\ calls.recommendations <= seed
          /\ calls.similar <= seed - 1
    /\ pc = "done" =>
          /\ calls.search <= 3 * seed
          /\ calls.recommendations <= seed
          /\ calls.similar <= seed

\* one call a step, each at its place: a search only among the three
\* variants of the seed, recommendations only after a search of the seed
\* answered a non-empty list, similar only after recommendations answered
QCallsInOrder ==
    /\ pc # "idle" =>
          calls'.search + calls'.recommendations + calls'.similar
              = calls.search + calls.recommendations + calls.similar + 1
    /\ calls'.search > calls.search => pc = "search"
    /\ calls'.recommendations > calls.recommendations => pc = "recommendations"
    /\ calls'.similar > calls.similar => pc = "similar"
    /\ pc' = "recommendations" =>
          /\ pc = "search"
          /\ calls'.search > calls.search
          /\ calls'.failed = calls.failed
          /\ seed' = seed
    /\ pc' = "similar" =>
          /\ pc = "recommendations"
          /\ calls'.failed = calls.failed
          /\ seed' = seed
    /\ pc \in {"recommendations", "similar"} /\ pc' = "search" => seed' = seed + 1
    /\ seed' \in {seed, seed + 1}
    /\ pc # "idle" => top_movies' = top_movies

\* C28: one run processes at most 3 seeds, in descending rating order with
\* ties in history order; makes at most 3 searches for a seed and stops
\* searching at the first non-empty answer; calls recommendations and then
\* similar at most once for a seed, and only after a non-empty search
\* answer; so it makes at most 9 search, 3 recommendations and 3 similar
\* calls, and it ends.
C28_CallsFollowTheProtocolAndTheRunEnds ==
    /\ [](QSeedsInOrder /\ QCallsWithinTheSeeds)
    /\ [][QCallsInOrder]_vars
    /\ <>(pc = "done")

\* four rated movies in the history, and every seed found at its third
\* search: 9 searches, 3 calls of each related list
C28_Witness ==
    /\ pc = "done"
    /\ Len(movies) = 4
    /\ Len(top_movies) = 3
    /\ calls = [search |-> 9, recommendations |-> 3, similar |-> 3, failed |-> 0]

----------------------------------------------------------------------------
(* Properties of the rating routes *)

\* C22: a rating outside [1, 10] is answered by the rate operation with a
\* validation failure (HTTP 400); the storage's rating mutation is not
\* invoked and the history is unchanged.
C22_RatingOutOfRangeIsRefusedBeforeTheStorage ==
    [][(r_pc = "idle" /\ r_op' = "rate" /\ (r_rating' < 10 \/ r_rating' > 100)) =>
          /\ r_pc' = "done"
          /\ r_status' = 400
          /\ r_detail' = "Rating must be between 1 and 10"
          /\ r_calls' = r_calls
          /\ r_storage' = ""
          /\ r_history' = r_history]_vars

\* 10.1 for a title of the history that has a rating
C22_Witness ==
    /\ r_pc = "done"
    /\ r_op = "rate"
    /\ r_rating = 101
    /\ r_history[r_title] = Some(50)
    /\ r_status = 400
    /\ r_calls = 0

\* C29: when the storage reports that the title was not found (the
\* mutation returns false), the rate operation, for a rating in range, and
\* the remove-rating operation answer 404 'Movie not found', not a 500.
C29_NotFoundIsAnsweredWith404 ==
    r_pc = "done" /\ r_storage = "false" =>
        /\ r_status = 404
        /\ r_detail = "Movie not found"

----------------------------------------------------------------------------
(* Properties of the construction of the engine *)

\* a key that is neither None nor the empty string
KHasKey(v) == v # None /\ Len(v[1]) > 0

\* C23: constructing the engine without catalog credentials (neither the
\* argument nor the environment holds a key) fails at construction, before
\* any catalog call, and no call follows; with credentials construction
\* succeeds, makes no catalog call, and the calls that follow carry the key
\* (the argument's before the environment's).
C23_ConstructionFailsExactlyWithoutCredentials ==
    [][/\ k_pc # "failed"
       /\ k_pc = "new" =>
            /\ k_requests = <<>>
            /\ k_requests' = <<>>
            /\ IF KHasKey(k_arg) \/ KHasKey(k_env)
               THEN /\ k_pc' = "ready"
                    /\ k_api_key' = IF KHasKey(k_arg) THEN k_arg ELSE k_env
               ELSE k_pc' = "failed"
       /\ k_pc = "ready" =>
            /\ k_pc' = "ready"
            /\ \A i \in DOMAIN k_requests' : k_requests'[i].api_key = k_api_key]_vars

\* neither an argument nor the environment variable
C23_Witness ==
    /\ k_pc = "failed"
    /\ k_arg = None
    /\ k_env = None
    /\ k_requests = <<>>

====
